---- MODULE Spec2Model ----
(***************************************************************************)
(* NVMe-oF connector of os-brick (os_brick/initiator/connectors/nvme.py):  *)
(* connect_volume, disconnect_volume and extend_volume called from several *)
(* threads of one process, the device enumeration they share, and the      *)
(* kernel's device namespace they observe and command.                     *)
(***************************************************************************)
EXTENDS Integers, Sequences, FiniteSets, TLC

(***************************************************************************)
(* Bounds and program constants.                                           *)
(***************************************************************************)

\* nvme.py:26, the default of the constructor's device_scan_attempts.
DEVICE_SCAN_ATTEMPTS_DEFAULT == 5

\* The largest device_scan_attempts the connector is constructed with in the
\* concurrent specification (the enumerator alone is checked up to the
\* default, see SpecEnum).
MaxScanAttempts == 1

\* The attempt budget of the utils.retry wrapper (os_brick/utils.py, its
\* "retries" argument, which nvme.py leaves to its default).
retries == 2

\* The longest `nvme list` output, in lines, the enumerator is fed in SpecEnum.
MaxLines == 2

Threads == {"t1", "t2"}

\* The thread that calls the enumerator directly in SpecEnum.
EnumThread == "t1"

NoThread == "-"

(***************************************************************************)
(* Text.  A line of command output is a sequence of tokens; a device path  *)
(* is the token sequence of its characters' groups: the prefix /dev/nvme,  *)
(* digits, the letter n, digits.  The empty sequence is the empty string.  *)
(***************************************************************************)

Digits == {"0", "1"}

DevPrefix == "/dev/nvme"

N0 == <<DevPrefix, "0", "n", "1">>

N1 == <<DevPrefix, "1", "n", "1">>

\* The device nodes the kernel can create.
Names == {N0, N1}

\* Python's None, and a key missing from a dict, as values apart from every string.
NoneVal == <<"None">>

Absent == <<"KeyError">>

Range(s) == {s[i] : i \in 1..Len(s)}

\* The first index at or after i of `line` that holds no digit: [0-9]* is greedy.
RECURSIVE DigitRun(_, _)
DigitRun(line, i) ==
    IF i <= Len(line) /\ line[i] \in Digits THEN DigitRun(line, i + 1) ELSE i

\* re.match(r'/dev/nvme[0-9]+n[0-9]+', line).group(0), or <<>> for no match:
\* the pattern is anchored at the start of the line and the match is the
\* matched prefix, whatever follows it.
ReMatch(line) ==
    IF Len(line) >= 1 /\ line[1] = DevPrefix
    THEN LET j == DigitRun(line, 2)
         IN  IF j > 2 /\ j <= Len(line) /\ line[j] = "n"
             THEN LET k == DigitRun(line, j + 1)
                  IN  IF k > j + 1 THEN SubSeq(line, 1, k - 1) ELSE <<>>
             ELSE <<>>
    ELSE <<>>

\* The loop of nvme.py:98-101 over out.split('\n'), appending to nvme_devices.
RECURSIVE ParseLines(_, _)
ParseLines(lines, devices) ==
    IF lines = <<>> THEN devices
    ELSE LET result == ReMatch(Head(lines))
         IN  ParseLines(Tail(lines),
                        IF result # <<>> THEN Append(devices, result) ELSE devices)

\* A mutant of Backoff: a linear delay.
BackoffLinear(retry_) == retry_

\* nvme.py:110, the delay slept after failed attempt `retry`.
Backoff(retry_) == retry_ ^ 2

(***************************************************************************)
(* The `nvme list` command's output.                                       *)
(***************************************************************************)

HeaderLine == <<"Node", " ", "SN">>

RuleLine == <<"-", " ", "-">>

\* The line `nvme list` prints for a device node: its path, then columns.
DeviceLine(n) == n \o <<" ", "SN">>

\* Lines the enumerator is fed in SpecEnum: well-formed ones and near misses.
SampleLines ==
    { HeaderLine, <<>>, DeviceLine(N0), DeviceLine(N1), N1,
      <<" ">> \o N0,                              \* the path after a blank
      <<DevPrefix, "n", "1">>,                    \* no controller index
      <<DevPrefix, "0", "n">>,                    \* no namespace index
      <<DevPrefix, "1", "0", "n", "1", "0", "p">> \* /dev/nvme10n10p...
    }

SampleOutputs == UNION {[1..n -> SampleLines] : n \in 0..MaxLines}

(***************************************************************************)
(* State.                                                                  *)
(***************************************************************************)

VARIABLES
    device_scan_attempts,  \* the connector's, set by __init__ (nvme.py:37-44)
    devs,                  \* the kernel's namespace: device node -> who created it
    pending,               \* connect commands that succeeded, node not yet created
    lock,                  \* lockutils' named locks: name -> holder
    pc,                    \* each thread's position
    op,                    \* each thread's operation
    args,                  \* and its arguments
    retry,                 \* _get_nvme_devices: the loop variable
    sleeps,                \* _get_nvme_devices: the delays slept so far, in order
    invocations,           \* _get_nvme_devices: `nvme list` commands run so far
    stdout,                \* _get_nvme_devices: what the successful command printed
    nvme_devices,          \* _get_nvme_devices: the list it builds and returns
    current_nvme_devices,  \* connect_volume / disconnect_volume: the snapshot
    all_nvme_devices,      \* _get_device_path: the list of its last call
    device_path,           \* disconnect_volume: the resolved target
    tries,                 \* utils.retry: the attempt number of the wrapped call
    ncmd,                  \* commands the call has issued, by kind and outcome
    result,                \* how the call ended
    concurrent             \* the threads whose call overlapped this thread's

vars == <<device_scan_attempts, devs, pending, lock, pc, op, args, retry, sleeps,
          invocations, stdout, nvme_devices, current_nvme_devices,
          all_nvme_devices, device_path, tries, ncmd, result, concurrent>>

\* The connector's configuration, the kernel's namespace, and which calls
\* ran side by side.
world == <<device_scan_attempts, devs, pending, concurrent>>

\* The locals of _get_nvme_devices.
enumLocals == <<retry, sleeps, invocations, stdout, nvme_devices>>

\* The locals of the three operations.
callLocals == <<current_nvme_devices, all_nvme_devices, device_path, tries>>

NoResult == [kind |-> "none", exc |-> "", path |-> NoneVal, creator |-> NoThread,
             devices |-> <<>>]

Raise(e) == [NoResult EXCEPT !.kind = "raise", !.exc = e]

Return == [NoResult EXCEPT !.kind = "return"]

NoCmds == [connect_ok |-> 0, disconnect_ok |-> 0, disconnect_failed |-> 0,
           resize |-> 0]

NoArgs == [device_info |-> [isNone |-> TRUE, path |-> NoneVal],
           device_path |-> Absent, force |-> FALSE, ignore_errors |-> FALSE]

\* The sites _get_nvme_devices is called from: connect_volume (nvme.py:146),
\* _get_device_path (118), disconnect_volume (193), and a direct call.
EnumSites == {"L146", "L118", "L193", "direct"}

\* nvme.py:30,132,172,223: synchronized_with_prefix('os-brick-') names the lock
\* after the decorator's argument.
LockNames == {"os-brick-connect_volume", "os-brick-disconnect_volume",
              "os-brick-extend_volume"}

TypeInit ==
    /\ devs \in [Names -> {NoThread, "ext"}]
    /\ pending = {}
    /\ lock = [l \in LockNames |-> NoThread]
    /\ pc = [t \in Threads |-> "idle"]
    /\ op = [t \in Threads |-> "none"]
    /\ args = [t \in Threads |-> NoArgs]
    /\ retry = [t \in Threads |-> 1]
    /\ sleeps = [t \in Threads |-> <<>>]
    /\ invocations = [t \in Threads |-> 0]
    /\ stdout = [t \in Threads |-> <<>>]
    /\ nvme_devices = [t \in Threads |-> <<>>]
    /\ current_nvme_devices = [t \in Threads |-> <<>>]
    /\ all_nvme_devices = [t \in Threads |-> <<>>]
    /\ device_path = [t \in Threads |-> <<>>]
    /\ tries = [t \in Threads |-> 0]
    /\ ncmd = [t \in Threads |-> NoCmds]
    /\ result = [t \in Threads |-> NoResult]
    /\ concurrent = [t \in Threads |-> {}]

(***************************************************************************)
(* How a call ends: the result, and `synchronized` releasing the lock the  *)
(* thread holds, on a return and on an exception alike.  The locals go     *)
(* with the frames.                                                        *)
(***************************************************************************)

\* A mutant of Finish: the lock is released on a return only, an exception
\* leaves it held.
FinishLeaksOnRaise(t, r) ==
    /\ pc' = [pc EXCEPT ![t] = "done"]
    /\ result' = [result EXCEPT ![t] = r]
    /\ lock' = [l \in LockNames |->
                  IF lock[l] = t /\ r.kind = "return" THEN NoThread ELSE lock[l]]

Finish(t, r) ==
    /\ pc' = [pc EXCEPT ![t] = "done"]
    /\ result' = [result EXCEPT ![t] = r]
    /\ lock' = [l \in LockNames |-> IF lock[l] = t THEN NoThread ELSE lock[l]]

\* nvme.py:89-93: the entry of _get_nvme_devices.
EnterEnum(t) ==
    /\ retry' = [retry EXCEPT ![t] = 1]
    /\ sleeps' = [sleeps EXCEPT ![t] = <<>>]
    /\ invocations' = [invocations EXCEPT ![t] = 0]
    /\ stdout' = [stdout EXCEPT ![t] = <<>>]
    /\ nvme_devices' = [nvme_devices EXCEPT ![t] = <<>>]

\* The frame of _get_nvme_devices is left.
LeaveEnum(t) == EnterEnum(t)

\* The frame of the operation is left.
LeaveCall(t) ==
    /\ current_nvme_devices' = [current_nvme_devices EXCEPT ![t] = <<>>]
    /\ all_nvme_devices' = [all_nvme_devices EXCEPT ![t] = <<>>]
    /\ device_path' = [device_path EXCEPT ![t] = <<>>]
    /\ tries' = [tries EXCEPT ![t] = 0]

(***************************************************************************)
(* _get_nvme_devices (nvme.py:88-114), one step per `nvme list` command.   *)
(***************************************************************************)

\* A mutant of ListFailsLocals: the failed attempt leaves a device in the list.
ListFailsLocalsCarry(t) ==
    /\ invocations' = [invocations EXCEPT ![t] = @ + 1]
    /\ sleeps' = [sleeps EXCEPT ![t] = Append(@, Backoff(retry[t]))]
    /\ retry' = [retry EXCEPT ![t] = @ + 1]
    /\ nvme_devices' = [nvme_devices EXCEPT ![t] = Append(@, N0)]
    /\ UNCHANGED stdout

\* nvme.py:106-110: what a failed command leaves in the function's locals.
ListFailsLocals(t) ==
    /\ invocations' = [invocations EXCEPT ![t] = @ + 1]
    /\ sleeps' = [sleeps EXCEPT ![t] = Append(@, Backoff(retry[t]))]
    /\ retry' = [retry EXCEPT ![t] = @ + 1]
    /\ UNCHANGED <<stdout, nvme_devices>>

\* A mutant of InLoop: one attempt too many.
InLoopOneMore(retry_, attempts) == retry_ <= attempts + 1

\* nvme.py:93: retry in range(1, self.device_scan_attempts + 1).
InLoop(retry_, attempts) == retry_ <= attempts

\* nvme.py:93-97,106-110: the command fails; the handler sleeps retry ** 2 and
\* the loop goes on.
ListFails(t) ==
    /\ pc[t] \in EnumSites
    /\ InLoop(retry[t], device_scan_attempts)
    /\ ListFailsLocals(t)
    /\ UNCHANGED <<world, lock, pc, op, args, callLocals, ncmd, result>>

\* A mutant of ListExhausted: a connect_volume that fails after its connect
\* command succeeded undoes the connection with a disconnect command.
ListExhaustedRollback(t) ==
    /\ pc[t] \in EnumSites
    /\ ~InLoop(retry[t], device_scan_attempts)
    /\ Finish(t, Raise("CommandExecutionFailed"))
    /\ LeaveCall(t)
    /\ IF pc[t] = "L118"
       THEN /\ pending' = pending \ {t}
            /\ devs' = [n \in Names |-> IF devs[n] = t THEN NoThread ELSE devs[n]]
            /\ ncmd' = [ncmd EXCEPT ![t].disconnect_ok = @ + 1]
       ELSE UNCHANGED <<pending, devs, ncmd>>
    /\ UNCHANGED <<device_scan_attempts, concurrent, op, args, enumLocals>>

\* A mutant of ListExhausted: disconnect_volume called with ignore_errors
\* swallows the enumeration's failure too, and returns.
ListExhaustedIgnored(t) ==
    /\ pc[t] \in EnumSites
    /\ ~InLoop(retry[t], device_scan_attempts)
    /\ IF pc[t] = "L193" /\ args[t].ignore_errors
       THEN Finish(t, Return)
       ELSE Finish(t, Raise("CommandExecutionFailed"))
    /\ LeaveCall(t)
    /\ UNCHANGED <<world, op, args, enumLocals, ncmd>>

\* A mutant of ListExhausted: the retry wrapper of _get_device_path takes
\* CommandExecutionFailed for one of its own and polls again.
ListExhaustedRetried(t) ==
    /\ pc[t] \in EnumSites
    /\ ~InLoop(retry[t], device_scan_attempts)
    /\ IF pc[t] = "L118" /\ tries[t] < retries
       THEN /\ pc' = [pc EXCEPT ![t] = "L116"]
            /\ tries' = [tries EXCEPT ![t] = @ + 1]
            /\ UNCHANGED <<result, lock, current_nvme_devices, all_nvme_devices,
                           device_path>>
       ELSE /\ Finish(t, Raise("CommandExecutionFailed"))
            /\ LeaveCall(t)
    /\ UNCHANGED <<world, op, args, enumLocals, ncmd>>

\* nvme.py:111-114: the loop ran out; CommandExecutionFailed leaves every caller
\* (none of them catches it, and utils.retry retries other exceptions only).
\* What the enumeration did stays on record.
ListExhausted(t) ==
    /\ pc[t] \in EnumSites
    /\ ~InLoop(retry[t], device_scan_attempts)
    /\ Finish(t, Raise("CommandExecutionFailed"))
    /\ LeaveCall(t)
    /\ UNCHANGED <<world, op, args, enumLocals, ncmd>>

\* nvme.py:93-97: the loop is in an attempt, about to run the command.
CanList(t) ==
    /\ pc[t] \in EnumSites
    /\ InLoop(retry[t], device_scan_attempts)

\* nvme.py:98-104: the command printed `out`; the list _get_nvme_devices returns.
Listed(t, out) == ParseLines(out, nvme_devices[t])

\* nvme.py:95-104: the command succeeds printing `out` and the caller goes on.
ListSucceeds(t, out) ==
    /\ invocations' = [invocations EXCEPT ![t] = @ + 1]
    /\ stdout' = [stdout EXCEPT ![t] = out]
    /\ nvme_devices' = [nvme_devices EXCEPT ![t] = Listed(t, out)]
    /\ UNCHANGED <<retry, sleeps>>

(***************************************************************************)
(* The enumerator called on its own, on any output.                        *)
(***************************************************************************)

\* A direct call of NVMeConnector._get_nvme_devices.
CallEnum(t) ==
    /\ pc[t] = "idle"
    /\ pc' = [pc EXCEPT ![t] = "direct"]
    /\ op' = [op EXCEPT ![t] = "_get_nvme_devices"]
    /\ EnterEnum(t)
    /\ UNCHANGED <<world, lock, args, callLocals, ncmd, result>>

\* nvme.py:104 seen from the direct caller.
EnumReturns(t) ==
    /\ pc[t] = "direct"
    /\ CanList(t)
    /\ \E out \in SampleOutputs :
          /\ ListSucceeds(t, out)
          /\ Finish(t, [Return EXCEPT !.devices = Listed(t, out)])
    /\ UNCHANGED <<world, op, args, callLocals, ncmd>>

InitEnum ==
    /\ TypeInit
    /\ device_scan_attempts \in 0..DEVICE_SCAN_ATTEMPTS_DEFAULT

NextEnum ==
    \/ CallEnum(EnumThread)
    \/ ListFails(EnumThread)
    \/ ListExhausted(EnumThread)
    \/ EnumReturns(EnumThread)

SpecEnum == InitEnum /\ [][NextEnum]_vars

(***************************************************************************)
(* The kernel and the commands.                                            *)
(***************************************************************************)

Present(d) == {n \in Names : d[n] # NoThread}

\* What `nvme list` prints for namespace d: two header lines, a line per
\* device node in name order, and the empty string after the last newline.
NvmeListOutput(d) ==
    <<HeaderLine, RuleLine>>
      \o (IF d[N0] # NoThread THEN <<DeviceLine(N0)>> ELSE <<>>)
      \o (IF d[N1] # NoThread THEN <<DeviceLine(N1)>> ELSE <<>>)
      \o << <<>> >>

\* The kernel creates the device node of a connect command that succeeded,
\* some time after the command returned, under a name that is free.
Materialize(t) ==
    /\ t \in pending
    /\ \E n \in Names :
          /\ devs[n] = NoThread
          /\ devs' = [devs EXCEPT ![n] = t]
    /\ pending' = pending \ {t}
    /\ UNCHANGED <<device_scan_attempts, concurrent, lock, pc, op, args, enumLocals,
                   callLocals, ncmd, result>>

\* A device node nobody here asked for appears (another process connects).
EnvAppear(n) ==
    /\ devs[n] = NoThread
    /\ devs' = [devs EXCEPT ![n] = "ext"]
    /\ UNCHANGED <<device_scan_attempts, concurrent, pending, lock, pc, op, args, enumLocals,
                   callLocals, ncmd, result>>

\* A device node disappears (the fabric drops it, another process disconnects).
EnvDisappear(n) ==
    /\ devs[n] # NoThread
    /\ devs' = [devs EXCEPT ![n] = NoThread]
    /\ UNCHANGED <<device_scan_attempts, concurrent, pending, lock, pc, op, args, enumLocals,
                   callLocals, ncmd, result>>

(***************************************************************************)
(* Calls and locks.                                                        *)
(***************************************************************************)

\* A mutant of LockName: one lock for every operation.
LockNameShared(o) == "os-brick-connect_volume"

\* nvme.py:132,172,223: the lock each operation is synchronized on.
LockName(o) == "os-brick-" \o o

\* A mutant of LockFree: the decorator does not wait.
LockFreeAlways(l) == TRUE

\* lockutils.synchronized (nvme.py:30): a thread enters when nobody holds the lock.
LockFree(l) == lock[l] = NoThread

\* The values a caller passes for a device path: nothing, None, '', a path.
PathValues == {Absent, NoneVal, <<>>, N0, N1}

\* device_info: None, or a dict whose 'path' is None, '' or a path.
DeviceInfos ==
    {[isNone |-> TRUE, path |-> NoneVal]}
      \cup {[isNone |-> FALSE, path |-> p] : p \in {NoneVal, <<>>, N0, N1}}

\* Every argument list of operation o.
ArgsOf(o) ==
    IF o = "connect_volume" THEN {NoArgs}
    ELSE IF o = "disconnect_volume"
    THEN [device_info : DeviceInfos, device_path : PathValues,
          force : BOOLEAN, ignore_errors : BOOLEAN]
    ELSE [device_info : {NoArgs.device_info}, device_path : PathValues,
          force : {FALSE}, ignore_errors : {FALSE}]

\* The argument lists the threads of the concurrent specification pass: the
\* detach targets are N0 (from device_info), N1 and '' (from the descriptor).
ArgsConcurrent(o) ==
    IF o = "connect_volume" THEN {NoArgs}
    ELSE IF o = "disconnect_volume"
    THEN [device_info : {[isNone |-> TRUE, path |-> NoneVal],
                         [isNone |-> FALSE, path |-> N0]},
          device_path : {NoneVal, N1},
          force : BOOLEAN, ignore_errors : BOOLEAN]
    ELSE [device_info : {NoArgs.device_info}, device_path : {NoneVal, N0},
          force : {FALSE}, ignore_errors : {FALSE}]

Operations == {"connect_volume", "disconnect_volume", "extend_volume"}

\* The threads inside a call.
InProgress == {u \in Threads : pc[u] \notin {"idle", "done"}}

\* A thread calls one of the three operations and reaches its decorator.
Call(t) ==
    /\ pc[t] = "idle"
    /\ \E o \in Operations : \E a \in ArgsConcurrent(o) :
          /\ op' = [op EXCEPT ![t] = o]
          /\ args' = [args EXCEPT ![t] = a]
    /\ pc' = [pc EXCEPT ![t] = "synchronized"]
    /\ concurrent' = [u \in Threads |->
                        IF u = t THEN InProgress \ {t}
                        ELSE IF u \in InProgress THEN concurrent[u] \cup {t}
                        ELSE concurrent[u]]
    /\ UNCHANGED <<device_scan_attempts, devs, pending, lock, enumLocals,
                   callLocals, ncmd, result>>

\* The same, with any arguments.
CallAny(t) ==
    /\ pc[t] = "idle"
    /\ \E o \in Operations : \E a \in ArgsOf(o) :
          /\ op' = [op EXCEPT ![t] = o]
          /\ args' = [args EXCEPT ![t] = a]
    /\ pc' = [pc EXCEPT ![t] = "synchronized"]
    /\ UNCHANGED <<world, lock, enumLocals, callLocals, ncmd, result>>

Acquire(t) ==
    /\ LockFree(LockName(op[t]))
    /\ lock' = [lock EXCEPT ![LockName(op[t])] = t]

(***************************************************************************)
(* connect_volume (nvme.py:131-169).                                       *)
(***************************************************************************)

\* nvme.py:132-146: the lock is taken and the body starts its first enumeration.
connect_volume(t) ==
    /\ pc[t] = "synchronized" /\ op[t] = "connect_volume"
    /\ Acquire(t)
    /\ pc' = [pc EXCEPT ![t] = "L146"]
    /\ EnterEnum(t)
    /\ UNCHANGED <<world, op, args, callLocals, ncmd, result>>

\* nvme.py:146-161: the snapshot is taken and the connect command built.
ConnectSnapshot(t) ==
    /\ pc[t] = "L146"
    /\ CanList(t)
    /\ ListSucceeds(t, NvmeListOutput(devs))
    /\ current_nvme_devices' =
          [current_nvme_devices EXCEPT ![t] = Listed(t, NvmeListOutput(devs))]
    /\ tries' = [tries EXCEPT ![t] = 1]
    /\ pc' = [pc EXCEPT ![t] = "L163"]
    /\ UNCHANGED <<world, lock, op, args, all_nvme_devices, device_path, ncmd, result>>

\* utils.retry (os_brick/utils.py, used at nvme.py:116,126): the wrapped call
\* that raised one of the wrapper's exceptions on attempt number `attempt` is
\* called again unless the attempts are used up; then the exception is raised.
RetryAgain(attempt) == attempt < retries

\* A mutant of TryConnectFails: the last failure of the connect command is
\* swallowed and the call goes on to look for its device.
TryConnectFailsGoesOn(t) ==
    /\ pc[t] = "L163"
    /\ IF RetryAgain(tries[t])
       THEN /\ tries' = [tries EXCEPT ![t] = @ + 1]
            /\ UNCHANGED <<pc, enumLocals>>
       ELSE /\ tries' = [tries EXCEPT ![t] = 1]
            /\ pc' = [pc EXCEPT ![t] = "L118"]
            /\ EnterEnum(t)
    /\ UNCHANGED <<world, lock, op, args, current_nvme_devices, all_nvme_devices,
                   device_path, ncmd, result>>

\* nvme.py:126-129,163: `nvme connect` fails; utils.retry runs it again until
\* its attempts are used up, and then raises the last ProcessExecutionError.
TryConnectFails(t) ==
    /\ pc[t] = "L163"
    /\ IF RetryAgain(tries[t])
       THEN /\ tries' = [tries EXCEPT ![t] = @ + 1]
            /\ UNCHANGED <<pc, result, lock, enumLocals, current_nvme_devices,
                           all_nvme_devices, device_path>>
       ELSE /\ Finish(t, Raise("ProcessExecutionError"))
            /\ LeaveEnum(t)
            /\ LeaveCall(t)
    /\ UNCHANGED <<world, op, args, ncmd>>

\* nvme.py:126-129,163-165: `nvme connect` succeeds; the kernel will create the
\* node; _get_device_path is entered for the first time.
TryConnectSucceeds(t) ==
    /\ pc[t] = "L163"
    /\ ncmd' = [ncmd EXCEPT ![t].connect_ok = @ + 1]
    /\ pending' = pending \cup {t}
    /\ tries' = [tries EXCEPT ![t] = 1]
    /\ pc' = [pc EXCEPT ![t] = "L118"]
    /\ EnterEnum(t)
    /\ UNCHANGED <<device_scan_attempts, concurrent, devs, lock, op, args, current_nvme_devices,
                   all_nvme_devices, device_path, result>>

\* A mutant of NewPaths: the operands of the difference swapped.
NewPathsSwapped(all, current) == Range(current) \ Range(all)

\* A mutant of NewPaths: no difference taken, any listed device will do.
NewPathsAll(all, current) == Range(all)

\* nvme.py:121: set(all_nvme_devices) - set(current_nvme_devices).
NewPaths(all, current) == Range(all) \ Range(current)

\* nvme.py:116-124,165-169: one call of _get_device_path whose enumeration
\* succeeds.  No new path: VolumePathsNotFound, which utils.retry answers with
\* another call until its attempts are used up.  Else connect_volume returns
\* path[0] of list(path), whichever element the set yields first.
GetDevicePath(t) ==
    /\ pc[t] = "L118"
    /\ CanList(t)
    /\ LET all == Listed(t, NvmeListOutput(devs))
           path == NewPaths(all, current_nvme_devices[t])
       IN  IF path = {}
           THEN IF RetryAgain(tries[t])
                THEN /\ ListSucceeds(t, NvmeListOutput(devs))
                     /\ all_nvme_devices' = [all_nvme_devices EXCEPT ![t] = all]
                     /\ tries' = [tries EXCEPT ![t] = @ + 1]
                     /\ pc' = [pc EXCEPT ![t] = "L116"]
                     /\ UNCHANGED <<result, lock, current_nvme_devices, device_path>>
                ELSE /\ Finish(t, Raise("VolumePathsNotFound"))
                     /\ LeaveEnum(t)
                     /\ LeaveCall(t)
           ELSE /\ \E p \in path :
                      Finish(t, [Return EXCEPT !.path = p, !.creator = devs[p]])
                /\ LeaveEnum(t)
                /\ LeaveCall(t)
    /\ UNCHANGED <<world, op, args, ncmd>>

\* nvme.py:116-118: utils.retry, having waited, calls _get_device_path again
\* after VolumePathsNotFound; the new call enters _get_nvme_devices afresh.
GetDevicePathAgain(t) ==
    /\ pc[t] = "L116"
    /\ pc' = [pc EXCEPT ![t] = "L118"]
    /\ EnterEnum(t)
    /\ UNCHANGED <<world, lock, op, args, callLocals, ncmd, result>>

(***************************************************************************)
(* disconnect_volume (nvme.py:171-220).                                    *)
(***************************************************************************)

\* A mutant of ResolveDevicePath: the descriptor's path preferred.
ResolveDescriptorFirst(device_info, cp_device_path) ==
    IF cp_device_path \notin {Absent, NoneVal, <<>>} THEN cp_device_path
    ELSE IF ~device_info.isNone /\ device_info.path \notin {NoneVal, <<>>}
    THEN device_info.path
    ELSE IF cp_device_path = NoneVal THEN <<>> ELSE cp_device_path

\* nvme.py:189-192: device_info's path when device_info is truthy and has a
\* truthy path, else connection_properties['device_path'] or ''.  Absent
\* stands for the KeyError of a descriptor without the key.
ResolveDevicePath(device_info, cp_device_path) ==
    IF ~device_info.isNone /\ device_info.path \notin {NoneVal, <<>>}
    THEN device_info.path
    ELSE IF cp_device_path \in {NoneVal, <<>>} THEN <<>> ELSE cp_device_path

\* nvme.py:172-193: the lock is taken, the target resolved, and the body starts
\* its enumeration.
disconnect_volume(t) ==
    /\ pc[t] = "synchronized" /\ op[t] = "disconnect_volume"
    /\ LET p == ResolveDevicePath(args[t].device_info, args[t].device_path)
       IN  IF p = Absent
           THEN /\ LockFree(LockName(op[t]))
                /\ Finish(t, Raise("KeyError"))
                /\ UNCHANGED <<enumLocals, device_path>>
           ELSE /\ Acquire(t)
                /\ device_path' = [device_path EXCEPT ![t] = p]
                /\ pc' = [pc EXCEPT ![t] = "L193"]
                /\ EnterEnum(t)
                /\ UNCHANGED result
    /\ UNCHANGED <<world, op, args, current_nvme_devices, all_nvme_devices,
                   tries, ncmd>>

\* A mutant of NotConnected: the test inverted.
NotConnectedInverted(p, current) == p \in Range(current)

\* nvme.py:194: device_path not in current_nvme_devices.
NotConnected(p, current) == p \notin Range(current)

\* nvme.py:193-207: the enumeration succeeds; a target that is not listed is
\* logged and the call returns, else the disconnect command is built.
DisconnectList(t) ==
    /\ pc[t] = "L193"
    /\ CanList(t)
    /\ LET current == Listed(t, NvmeListOutput(devs))
       IN  IF NotConnected(device_path[t], current)
           THEN /\ Finish(t, Return)
                /\ LeaveEnum(t)
                /\ LeaveCall(t)
           ELSE /\ ListSucceeds(t, NvmeListOutput(devs))
                /\ current_nvme_devices' =
                      [current_nvme_devices EXCEPT ![t] = current]
                /\ pc' = [pc EXCEPT ![t] = "L209"]
                /\ UNCHANGED <<result, lock, all_nvme_devices, device_path, tries>>
    /\ UNCHANGED <<world, op, args, ncmd>>

\* nvme.py:208-212: `nvme disconnect -d device_path` succeeds: the kernel
\* removes the node, and the call returns.
DisconnectSucceeds(t) ==
    /\ pc[t] = "L209"
    /\ devs[device_path[t]] # NoThread
    /\ devs' = [devs EXCEPT ![device_path[t]] = NoThread]
    /\ ncmd' = [ncmd EXCEPT ![t].disconnect_ok = @ + 1]
    /\ Finish(t, Return)
    /\ LeaveEnum(t)
    /\ LeaveCall(t)
    /\ UNCHANGED <<device_scan_attempts, concurrent, pending, op, args>>

\* A mutant of Suppressed: the error swallowed whatever ignore_errors says.
SuppressedAlways(ignore_errors) == TRUE

\* nvme.py:219: `if not ignore_errors: raise`.
Suppressed(ignore_errors) == ignore_errors

\* nvme.py:208-220: the command fails (the node is gone, or the command could
\* not run); the error is logged, and raised again unless ignore_errors.
DisconnectFails(t) ==
    /\ pc[t] = "L209"
    /\ ncmd' = [ncmd EXCEPT ![t].disconnect_failed = @ + 1]
    /\ IF Suppressed(args[t].ignore_errors)
       THEN Finish(t, Return)
       ELSE Finish(t, Raise("ProcessExecutionError"))
    /\ LeaveEnum(t)
    /\ LeaveCall(t)
    /\ UNCHANGED <<world, op, args>>

(***************************************************************************)
(* extend_volume (nvme.py:222-237).                                        *)
(***************************************************************************)

\* nvme.py:83-86: [connection_properties['device_path']], a list of one
\* element whatever the path is.
get_volume_paths(connection_properties) ==
    <<connection_properties.device_path>>

\* nvme.py:223-237: the lock is taken and the paths are looked up; a
\* descriptor without the key ends the call with KeyError, an empty list with
\* VolumePathsNotFound, and otherwise the resize primitive is called.
extend_volume(t) ==
    /\ pc[t] = "synchronized" /\ op[t] = "extend_volume"
    /\ LET volume_paths == get_volume_paths(args[t])
       IN  IF volume_paths = <<Absent>>
           THEN /\ LockFree(LockName(op[t]))
                /\ Finish(t, Raise("KeyError"))
           ELSE IF volume_paths # <<>>
           THEN /\ Acquire(t)
                /\ pc' = [pc EXCEPT ![t] = "L232"]
                /\ UNCHANGED result
           ELSE /\ LockFree(LockName(op[t]))
                /\ Finish(t, Raise("VolumePathsNotFound"))
    /\ UNCHANGED <<world, op, args, enumLocals, callLocals, ncmd>>

\* nvme.py:232: self._linuxscsi.extend_volume(volume_paths), the external
\* resize primitive, returns the new size or raises.
ExtendResize(t) ==
    /\ pc[t] = "L232"
    /\ ncmd' = [ncmd EXCEPT ![t].resize = @ + 1]
    /\ \E r \in {Return, Raise("ProcessExecutionError")} : Finish(t, r)
    /\ UNCHANGED <<world, op, args, enumLocals, callLocals>>

(***************************************************************************)
(* The connector used by the threads of one process.                       *)
(***************************************************************************)

\* The steps of a call in progress.
Step(t) ==
    \/ connect_volume(t)
    \/ ListFails(t)
    \/ ListExhausted(t)
    \/ ConnectSnapshot(t)
    \/ TryConnectFails(t)
    \/ TryConnectSucceeds(t)
    \/ GetDevicePath(t)
    \/ GetDevicePathAgain(t)
    \/ disconnect_volume(t)
    \/ DisconnectList(t)
    \/ DisconnectSucceeds(t)
    \/ DisconnectFails(t)
    \/ extend_volume(t)
    \/ ExtendResize(t)
    \/ Materialize(t)

Kernel == \E n \in Names : EnvAppear(n) \/ EnvDisappear(n)

Init ==
    /\ TypeInit
    /\ device_scan_attempts \in 1..MaxScanAttempts

Next ==
    \/ \E t \in Threads : Call(t) \/ Step(t)
    \/ Kernel

Spec == Init /\ [][Next]_vars

(***************************************************************************)
(* One call, with any arguments, of a connector constructed with any       *)
(* device_scan_attempts up to the default.                                 *)
(***************************************************************************)

InitCall ==
    /\ TypeInit
    /\ device_scan_attempts \in 0..DEVICE_SCAN_ATTEMPTS_DEFAULT

NextCall ==
    \/ CallAny(EnumThread)
    \/ Step(EnumThread)
    \/ Kernel

SpecCall == InitCall /\ [][NextCall]_vars

(***************************************************************************)
(* Properties.                                                             *)
(***************************************************************************)

\* The positions inside an operation's body, the lock held.
BodyPcs == {"L146", "L163", "L118", "L116", "L193", "L209", "L232"}

InBody(t) == pc[t] \in BodyPcs

\* Thread t ends its call in this step.
Ends(t) == pc[t] # "done" /\ pc'[t] = "done"

\* C1 (freshness): whenever connect_volume returns, the path it returns was
\* not in the list it snapshotted before the connect command, and is a node
\* of the namespace listed by a command run after a connect command of this
\* call succeeded.
C1_Freshness ==
    [][\A t \in Threads :
          (op[t] = "connect_volume" /\ Ends(t) /\ result'[t].kind = "return")
          => /\ result'[t].path \notin Range(current_nvme_devices[t])
             /\ result'[t].path \in Present(devs)
             /\ ncmd[t].connect_ok = 1
             /\ pc[t] = "L118"]_vars

\* C1's case: with /dev/nvme0n1 there before, connect_volume returned
\* /dev/nvme1n1, the node its own command created.
C1_Witness ==
    \E t \in Threads :
        /\ op[t] = "connect_volume"
        /\ result[t].kind = "return"
        /\ result[t].path = N1
        /\ result[t].creator = t
        /\ devs[N0] = "ext"

\* C2 (diff isolation): of two connect_volume calls that overlap, neither
\* returns the device node the other's connect command created.
C2_DiffIsolation ==
    \A t, u \in Threads :
        (/\ t # u
         /\ op[t] = "connect_volume" /\ op[u] = "connect_volume"
         /\ u \in concurrent[t]
         /\ result[t].kind = "return")
        => result[t].creator # u

\* Thread t moves on from a command that listed the namespace.
Lists(t) == pc'[t] # pc[t] /\ result'[t].exc # "CommandExecutionFailed"

\* C3 (exhaustion): after a successful connect command, a poll that lists no
\* device outside the snapshot is followed by another poll while the retry
\* budget lasts, and by VolumePathsNotFound, with no further poll and no
\* DeviceInfo, when it was poll number `retries`; and connect_volume raises
\* VolumePathsNotFound only so.
C3_Exhaustion ==
    [][\A t \in Threads :
          /\ (/\ op[t] = "connect_volume" /\ pc[t] = "L118" /\ Lists(t)
              /\ Present(devs) \subseteq Range(current_nvme_devices[t]))
             => /\ ncmd[t].connect_ok = 1
                /\ tries[t] \in 1..retries
                /\ IF tries[t] = retries
                   THEN pc'[t] = "done" /\ result'[t] = Raise("VolumePathsNotFound")
                   ELSE pc'[t] = "L116" /\ tries'[t] = tries[t] + 1
          /\ (/\ op[t] = "connect_volume" /\ Ends(t)
              /\ result'[t].exc = "VolumePathsNotFound")
             => /\ pc[t] = "L118"
                /\ tries[t] = retries
                /\ Present(devs) \subseteq Range(current_nvme_devices[t])]_vars

\* C3's case: connect_volume raised VolumePathsNotFound after its connect
\* command had succeeded.
C3_Witness ==
    \E t \in Threads :
        /\ op[t] = "connect_volume"
        /\ result[t] = Raise("VolumePathsNotFound")
        /\ ncmd[t].connect_ok = 1

\* C4 (idempotent detach): when disconnect_volume lists the namespace and its
\* target is not in it, the call ends there, returning, having issued no
\* disconnect command, the namespace as it was.
C4_IdempotentDetach ==
    [][\A t \in Threads :
          (/\ op[t] = "disconnect_volume" /\ pc[t] = "L193" /\ Lists(t)
           /\ device_path[t] \notin Present(devs))
          => /\ pc'[t] = "done"
             /\ result'[t] = Return
             /\ ncmd'[t] = NoCmds
             /\ devs' = devs]_vars

\* C4's case: a detach of /dev/nvme0n1 removed it by command, and another,
\* forced, detach of the same path returned without a command.
C4_Witness ==
    \E t, u \in Threads :
        /\ t # u
        /\ op[t] = "disconnect_volume" /\ op[u] = "disconnect_volume"
        /\ ResolveDevicePath(args[t].device_info, args[t].device_path) = N0
        /\ ResolveDevicePath(args[u].device_info, args[u].device_path) = N0
        /\ result[u] = Return /\ ncmd[u].disconnect_ok = 1
        /\ result[t] = Return /\ ncmd[t] = NoCmds
        /\ args[t].force /\ args[t].ignore_errors
        /\ devs[N0] = NoThread

\* C5 (error suppression): a disconnect_volume whose disconnect command failed
\* has ended; it returned if ignore_errors, and raised the
\* ProcessExecutionError if not.
C5_ErrorSuppression ==
    \A t \in Threads :
        (op[t] = "disconnect_volume" /\ ncmd[t].disconnect_failed > 0)
        => /\ pc[t] = "done"
           /\ ncmd[t].disconnect_failed = 1
           /\ args[t].ignore_errors => result[t] = Return
           /\ ~args[t].ignore_errors => result[t] = Raise("ProcessExecutionError")

\* C5's case: the command failed under both calls; the one with ignore_errors
\* returned, the other raised.
C5_Witness ==
    \E t, u \in Threads :
        /\ op[t] = "disconnect_volume" /\ op[u] = "disconnect_volume"
        /\ ncmd[t].disconnect_failed = 1 /\ args[t].ignore_errors
        /\ result[t].kind = "return"
        /\ ncmd[u].disconnect_failed = 1 /\ ~args[u].ignore_errors
        /\ result[u].kind = "raise"

\* A sequence of tokens that is a device path: /dev/nvme, digits, n, digits.
IsPath(s) ==
    /\ Len(s) >= 4
    /\ s[1] = DevPrefix
    /\ \E j \in 3..(Len(s) - 1) :
          /\ s[j] = "n"
          /\ \A i \in 2..(j - 1) : s[i] \in Digits
          /\ \A i \in (j + 1)..Len(s) : s[i] \in Digits

\* The longest prefix of a line that is a device path, or <<>>.
PathPrefix(line) ==
    LET ks == {k \in 1..Len(line) : IsPath(SubSeq(line, 1, k))}
    IN  IF ks = {} THEN <<>>
        ELSE SubSeq(line, 1, CHOOSE k \in ks : \A m \in ks : m <= k)

\* The device paths the lines of an output start with, in the lines' order.
RECURSIVE PathsIn(_)
PathsIn(out) ==
    IF out = <<>> THEN <<>>
    ELSE (IF PathPrefix(Head(out)) # <<>> THEN <<PathPrefix(Head(out))>> ELSE <<>>)
           \o PathsIn(Tail(out))

\* C6 (enumeration retry/backoff): when _get_nvme_devices returns after k
\* failed commands, k < device_scan_attempts, it ran the command k + 1 times,
\* slept 1, 4, ..., k^2 in that order, and returns the device paths of the
\* successful command's output and nothing else.
C6_RetryBackoff ==
    \A t \in Threads :
        (op[t] = "_get_nvme_devices" /\ result[t].kind = "return")
        => LET k == Len(sleeps[t])
           IN  /\ k < device_scan_attempts
               /\ invocations[t] = k + 1
               /\ sleeps[t] = [i \in 1..k |-> i * i]
               /\ result[t].devices = PathsIn(stdout[t])

\* C6's case: two failures, then an output listing both devices.
C6_Witness ==
    \E t \in Threads :
        /\ op[t] = "_get_nvme_devices"
        /\ result[t].kind = "return"
        /\ sleeps[t] = <<1, 4>>
        /\ invocations[t] = 3
        /\ stdout[t] = <<DeviceLine(N0), DeviceLine(N1)>>
        /\ result[t].devices = <<N0, N1>>

\* C7 (enumeration exhaustion): the command is never run more than
\* device_scan_attempts times in one enumeration; once it has failed that
\* often, the thread's next step ends its call with CommandExecutionFailed;
\* and a call that ended so is a connect_volume or disconnect_volume whose
\* last enumeration ran the command exactly device_scan_attempts times.
C7_EnumExhaustion ==
    /\ [](\A t \in Threads :
            /\ invocations[t] <= device_scan_attempts
            /\ result[t].exc = "CommandExecutionFailed"
               => /\ pc[t] = "done" /\ result[t].kind = "raise"
                  /\ op[t] \in {"connect_volume", "disconnect_volume"}
                  /\ invocations[t] = device_scan_attempts
                  /\ Len(sleeps[t]) = device_scan_attempts)
    /\ [][\A t \in Threads :
            (/\ pc[t] \in EnumSites
             /\ Len(sleeps[t]) = device_scan_attempts
             /\ <<pc[t], retry[t], invocations[t], tries[t]>>'
                  # <<pc[t], retry[t], invocations[t], tries[t]>>)
            => /\ pc'[t] = "done"
               /\ result'[t] = Raise("CommandExecutionFailed")
               /\ invocations'[t] = invocations[t]]_vars

\* C7's case: with the default device_scan_attempts, an enumeration of a poll
\* of connect_volume failed five times and the call raised.
C7_Witness ==
    \E t \in Threads :
        /\ device_scan_attempts = DEVICE_SCAN_ATTEMPTS_DEFAULT
        /\ op[t] = "connect_volume"
        /\ ncmd[t].connect_ok = 1
        /\ result[t] = Raise("CommandExecutionFailed")
        /\ invocations[t] = 5

\* C8 (extend failure): extend_volume called with a descriptor that has no
\* device_path, or None or '' for it, raises VolumePathsNotFound and does not
\* call the resize primitive.
C8_ExtendFailure ==
    \A t \in Threads :
        (op[t] = "extend_volume" /\ args[t].device_path \in {Absent, NoneVal, <<>>})
        => /\ pc[t] # "L232"
           /\ ncmd[t].resize = 0
           /\ pc[t] = "done" => result[t] = Raise("VolumePathsNotFound")

\* C9 (same-class mutual exclusion): at most one thread is inside the body of
\* each operation.
C9_MutualExclusion ==
    \A o \in Operations :
        Cardinality({t \in Threads : op[t] = o /\ InBody(t)}) <= 1

\* C9's case: a call waits at the decorator while another is inside the body
\* of the same operation.
C9_Witness ==
    \E t, u \in Threads :
        /\ op[t] = op[u]
        /\ InBody(t)
        /\ pc[u] = "synchronized"

\* C10 (cross-class non-blocking): a call at its decorator can enter its body
\* whenever no call of the same operation is inside its own, whatever calls
\* of the other operations are doing.
C10_CrossClass ==
    \A t \in Threads :
        (/\ pc[t] = "synchronized"
         /\ \A u \in Threads \ {t} : InBody(u) => op[u] # op[t])
        => ENABLED (connect_volume(t) \/ disconnect_volume(t) \/ extend_volume(t))

\* C10's case: a connect_volume polling for its device and a disconnect_volume
\* about to run its command, both inside their bodies.
C10_Witness ==
    \E t, u \in Threads :
        /\ op[t] = "connect_volume" /\ pc[t] = "L118"
        /\ op[u] = "disconnect_volume" /\ pc[u] = "L209"

\* C11 (deterministic selection): the path connect_volume returns is decided
\* by the snapshot and the poll's list alone: a poll that can end the call
\* returning one path cannot, from the same state, end it returning another.
C11_DeterministicSelection ==
    \A t \in Threads : \A p, q \in Names :
        (/\ pc[t] = "L118"
         /\ ENABLED (GetDevicePath(t) /\ result'[t].path = p)
         /\ ENABLED (GetDevicePath(t) /\ result'[t].path = q))
        => p = q

\* The detach target as the caller's arguments give it: device_info's path if
\* device_info is given with a path that is not empty, else the descriptor's
\* device_path, the empty path standing for None and ''.
Target(t) ==
    IF ~args[t].device_info.isNone /\ args[t].device_info.path \in Names
    THEN args[t].device_info.path
    ELSE IF args[t].device_path \in Names THEN args[t].device_path ELSE <<>>

\* C12 (detach target resolution): inside the body of disconnect_volume the
\* resolved path is Target; the call goes on to the disconnect command exactly
\* when Target is listed, and the command that succeeds removes Target's node
\* and no other, whatever the descriptor's device_path is.
C12_TargetResolution ==
    [][\A t \in Threads :
          op[t] = "disconnect_volume"
          => /\ pc'[t] \in {"L193", "L209"} => device_path'[t] = Target(t)
             /\ (pc[t] = "L193" /\ Lists(t))
                => (pc'[t] = "L209" <=> Target(t) \in Present(devs))
             /\ (pc[t] = "L209" /\ ncmd'[t].disconnect_ok # ncmd[t].disconnect_ok)
                => /\ devs[Target(t)] # NoThread
                   /\ devs' = [devs EXCEPT ![Target(t)] = NoThread]]_vars

\* C12's case: device_info names /dev/nvme0n1 and the descriptor /dev/nvme1n1,
\* both connected; the command removed /dev/nvme0n1 and left /dev/nvme1n1.
C12_Witness ==
    \E t \in Threads :
        /\ op[t] = "disconnect_volume"
        /\ args[t].device_info.path = N0
        /\ args[t].device_path = N1
        /\ ncmd[t].disconnect_ok = 1
        /\ devs[N0] = NoThread
        /\ devs[N1] # NoThread

\* Thread t takes a step of its call.
Moves(t) ==
    <<pc[t], retry[t], invocations[t], tries[t], ncmd[t]>>'
      # <<pc[t], retry[t], invocations[t], tries[t], ncmd[t]>>

\* C13 (independent retry scopes): in connect_volume, (a) _get_device_path is
\* called again only after a call of it listed the namespace and found no
\* device outside the snapshot; (b) an enumeration inside _get_device_path that
\* has used up its scan attempts ends connect_volume with
\* CommandExecutionFailed, whatever is left of the polls; (c) a failure of the
\* connect command leads to another connect command or, the command's attempts
\* used up, to ProcessExecutionError, with no enumeration run, and the first
\* poll after a successful command is poll number 1 however many commands
\* failed before.
C13_RetryScopes ==
    [][\A t \in Threads :
          op[t] = "connect_volume"
          => /\ pc'[t] = "L116"
                => /\ pc[t] \in {"L116", "L118"}
                   /\ pc[t] = "L118"
                      => /\ invocations'[t] = invocations[t] + 1
                         /\ Present(devs) \subseteq Range(current_nvme_devices[t])
                         /\ tries'[t] = tries[t] + 1
             /\ (pc[t] = "L118" /\ invocations[t] = device_scan_attempts /\ Moves(t))
                => /\ pc'[t] = "done"
                   /\ result'[t] = Raise("CommandExecutionFailed")
             /\ (pc[t] = "L163" /\ Moves(t) /\ ncmd'[t] = ncmd[t])
                => /\ invocations'[t] <= invocations[t]
                   /\ IF tries[t] < retries
                      THEN pc'[t] = "L163" /\ tries'[t] = tries[t] + 1
                      ELSE pc'[t] = "done"
                           /\ result'[t] = Raise("ProcessExecutionError")
             /\ (pc[t] = "L163" /\ pc'[t] # "L163" /\ pc'[t] # "done")
                => /\ pc'[t] = "L118"
                   /\ tries'[t] = 1
                   /\ ncmd'[t].connect_ok = ncmd[t].connect_ok + 1]_vars

\* C13's case: with polls left (the first is under way), the enumeration of a
\* poll has failed device_scan_attempts times, after a connect command that
\* succeeded.
C13_Witness ==
    \E t \in Threads :
        /\ op[t] = "connect_volume"
        /\ pc[t] = "L118"
        /\ ncmd[t].connect_ok = 1
        /\ tries[t] = 1 /\ tries[t] < retries
        /\ device_scan_attempts = 2
        /\ sleeps[t] = <<1, 4>>

\* C14 (backoff only between attempts): an enumeration that raised
\* CommandExecutionFailed, every one of its device_scan_attempts commands
\* having failed, slept device_scan_attempts - 1 times, 1, 4, ... in that
\* order: after the last failed command it raised without another sleep.
C14_BackoffBetween ==
    \A t \in Threads :
        result[t].exc = "CommandExecutionFailed"
        => sleeps[t] = [i \in 1..(device_scan_attempts - 1) |-> i * i]

\* C15 (attach step ordering): in connect_volume, the connect command is first
\* run right after the enumeration of the snapshot has succeeded, and not
\* before; _get_device_path is entered only with a connect command that
\* succeeded; a snapshot whose enumeration fails ends the call with no command
\* issued; and the connect command's attempts used up, the call ends with
\* ProcessExecutionError from there, no poll made and nothing returned.
C15_StepOrdering ==
    [][\A t \in Threads :
          op[t] = "connect_volume"
          => /\ (pc'[t] = "L163" /\ pc[t] # "L163")
                => /\ pc[t] = "L146"
                   /\ invocations'[t] = invocations[t] + 1
                   /\ current_nvme_devices'[t] = PathsIn(NvmeListOutput(devs))
                   /\ ncmd[t] = NoCmds
             /\ ncmd'[t] # ncmd[t]
                => /\ pc[t] = "L163"
                   /\ ncmd'[t] = [NoCmds EXCEPT !.connect_ok = 1]
             /\ pc'[t] \in {"L118", "L116"} => ncmd'[t].connect_ok = 1
             /\ (pc[t] = "L146" /\ Ends(t))
                => /\ result'[t] = Raise("CommandExecutionFailed")
                   /\ ncmd'[t] = NoCmds
             /\ (pc[t] = "L163" /\ Ends(t))
                => /\ result'[t] = Raise("ProcessExecutionError")
                   /\ tries[t] = retries
                   /\ ncmd'[t] = NoCmds
             /\ (Ends(t) /\ result'[t].exc = "ProcessExecutionError")
                => pc[t] = "L163"]_vars

\* C15's case: the connect command failed on every attempt and the call
\* raised ProcessExecutionError.
C15_Witness ==
    \E t \in Threads :
        /\ op[t] = "connect_volume"
        /\ result[t] = Raise("ProcessExecutionError")
        /\ ncmd[t] = NoCmds

(***************************************************************************)
(* The same threads under a fair scheduler.  A thread inside a call that   *)
(* can take a step takes one: the commands it runs terminate, its sleeps   *)
(* end, and a lock that is free is handed to a thread waiting for it.      *)
(* Nothing is assumed of when callers call or of when the kernel creates   *)
(* a node.  The namespace starts in any state and changes by the threads'  *)
(* own commands.                                                           *)
(***************************************************************************)

\* A step of thread t's own (Materialize is the kernel's).
Runs(t) == Step(t) /\ (t \in pending => t \in pending')

Fairness == \A t \in Threads : WF_vars(Runs(t))

NextFair == \E t \in Threads : Call(t) \/ Step(t)

SpecFair == Init /\ [][NextFair]_vars /\ Fairness

\* C16 (bounded termination and lock release): under the fair scheduler every
\* call that was made ends, returning or raising; a call that has ended holds
\* no lock; so a call waiting at its decorator gets past it.
C16_Termination ==
    /\ [](\A t \in Threads : pc[t] \in {"idle", "done"}
                               => \A l \in LockNames : lock[l] # t)
    /\ \A t \in Threads : (pc[t] = "synchronized") ~> (pc[t] = "done")

\* C16's case: two calls of connect_volume overlapped, so that one waited for
\* the lock the other held; one of them raised, both have ended, and every
\* lock is free.
C16_Witness ==
    \E t, u \in Threads :
        /\ t # u
        /\ op[t] = "connect_volume" /\ op[u] = "connect_volume"
        /\ t \in concurrent[u]
        /\ pc[t] = "done" /\ result[t].kind = "raise"
        /\ pc[u] = "done"
        /\ \A l \in LockNames : lock[l] = NoThread

\* C17 (attribution across sequential calls): of two connect_volume calls made
\* one after the other, the later never returns a device node that the
\* earlier call's connect command created, also when the earlier call raised
\* and its node was created only after it had ended.
C17_SequentialAttribution ==
    \A t, u \in Threads :
        (/\ t # u
         /\ op[t] = "connect_volume" /\ op[u] = "connect_volume"
         /\ u \notin concurrent[t]
         /\ result[t].kind = "return")
        => result[t].creator # u

\* C18 (attach liveness under concurrent detach): connect_volume does not end
\* with VolumePathsNotFound from a poll whose enumeration lists the device node
\* that its own connect command created, whatever detaches ran since its
\* snapshot and whatever name the kernel gave the node.
C18_AttachLiveness ==
    [][\A t \in Threads :
          (/\ op[t] = "connect_volume" /\ pc[t] = "L118" /\ Lists(t)
           /\ \E n \in Names : devs[n] = t)
          => ~(pc'[t] = "done" /\ result'[t].exc = "VolumePathsNotFound")]_vars

\* C19 (no rollback on failed attach): connect_volume issues no disconnect
\* command and no resize, and the step in which it raises leaves the kernel's
\* namespace and the connections whose nodes are still to come as they were:
\* what its connect command established stays.
C19_NoRollback ==
    /\ [](\A t \in Threads :
            op[t] = "connect_volume"
            => /\ ncmd[t].disconnect_ok = 0
               /\ ncmd[t].disconnect_failed = 0
               /\ ncmd[t].resize = 0)
    /\ [][\A t \in Threads :
            (op[t] = "connect_volume" /\ Ends(t) /\ result'[t].kind = "raise")
            => /\ devs' = devs
               /\ pending' = pending
               /\ ncmd'[t] = ncmd[t]]_vars

\* C19's case: connect_volume raised VolumePathsNotFound after its connect
\* command succeeded; the connection is there, its node still to come.
C19_Witness ==
    \E t \in Threads :
        /\ op[t] = "connect_volume"
        /\ result[t] = Raise("VolumePathsNotFound")
        /\ ncmd[t] = [NoCmds EXCEPT !.connect_ok = 1]
        /\ t \in pending

\* C20 (scope of ignore_errors): disconnect_volume runs the disconnect command
\* at most once; when its enumeration has used up its scan attempts the call
\* ends with CommandExecutionFailed, with ignore_errors as without, and no
\* disconnect command was or is run; ignore_errors turns into a return only
\* the failure of the disconnect command.
C20_IgnoreErrorsScope ==
    /\ [](\A t \in Threads :
            op[t] = "disconnect_volume"
            => /\ ncmd[t].disconnect_ok + ncmd[t].disconnect_failed <= 1
               /\ result[t].exc = "CommandExecutionFailed" => ncmd[t] = NoCmds)
    /\ [][\A t \in Threads :
            (/\ op[t] = "disconnect_volume" /\ pc[t] = "L193"
             /\ invocations[t] = device_scan_attempts /\ Moves(t))
            => /\ pc'[t] = "done"
               /\ result'[t] = Raise("CommandExecutionFailed")
               /\ ncmd'[t] = NoCmds
               /\ devs' = devs]_vars
    /\ [][\A t \in Threads :
            (/\ op[t] = "disconnect_volume" /\ Ends(t)
             /\ result'[t].kind = "return" /\ ncmd'[t].disconnect_ok = 0)
            => \/ pc[t] = "L193" /\ invocations[t] < device_scan_attempts
               \/ /\ pc[t] = "L209" /\ args[t].ignore_errors
                  /\ ncmd'[t].disconnect_failed = 1]_vars

\* C20's case: a disconnect_volume called with ignore_errors raised
\* CommandExecutionFailed, its enumeration having failed every time.
C20_Witness ==
    \E t \in Threads :
        /\ op[t] = "disconnect_volume"
        /\ args[t].ignore_errors
        /\ device_scan_attempts = DEVICE_SCAN_ATTEMPTS_DEFAULT
        /\ result[t] = Raise("CommandExecutionFailed")
        /\ invocations[t] = device_scan_attempts
        /\ ncmd[t] = NoCmds

====
